---------------------------- MODULE Spec2Model ----------------------------
(***************************************************************************)
(* A model of edwh_migrate: the migration registry (MigrationStore), the   *)
(* @migration decorator with its requirement guard, and the runner         *)
(* (activate_migrations) with the ledger table ewh_implemented_features.   *)
(***************************************************************************)
EXTENDS Integers, Sequences, FiniteSets, TLC

(***************************************************************************)
(* Bounds of the model.                                                    *)
(***************************************************************************)
\* longest requires list passed to @migration in the registry-only specification
MaxRegRequires == 2
\* migration names used by the specification of the runner
MaxRunNames == 2
\* longest requires list passed to @migration in the specification of the runner
MaxRunRequires == 2
\* calls of activate_migrations in one behaviour
MaxBatches == 2
\* runs of the console hook (one process each) in one behaviour
MaxHookRuns == 3

NamePool == <<"m1", "m2", "m3", "m4", "m5">>

\* the function names the registry-only specification declares migrations with
RegNames == {"m1", "m2", "m3"}

RunNames == {NamePool[i] : i \in 1..MaxRunNames}

\* all sequences over S of length at most n
SeqsUpTo(S, n) == UNION {[1..k -> S] : k \in 0..n}

Range(s) == {s[i] : i \in 1..Len(s)}

Max(S) == CHOOSE x \in S : \A y \in S : y <= x

VARIABLES
    order,          \* MigrationStore._order: list of names
    functions,      \* MigrationStore._functions: list of callables, zipped with order
    names,          \* MigrationStore._names: set of names
    last_register,  \* how the most recent call of @migration ended
    ledger,         \* committed rows of ewh_implemented_features, in row order
    dbview,         \* the rows as the batch handle `db` sees them (own writes included)
    pc,             \* position of activate_migrations
    idx,            \* position of the for loop in the registry (1-based)
    successes,      \* the list `successes`
    result,         \* the local `result`
    handles,        \* database handles opened since the batch started
    log,            \* what the batch did, in order
    ret,            \* how the most recent activate_migrations ended
    batches,        \* calls of activate_migrations so far
    start_ledger,   \* the committed rows when the most recent batch started
    script,         \* the registrations a migrations file still has to make
    flag_dir,       \* whether the directory config.flag_location exists
    lock_files,     \* the names of the files in that directory
    schema_version, \* config.schema_version of the running process
    hpc,            \* position of _console_hook
    hook,           \* how the lock scope of the most recent run was entered and left
    hook_runs,      \* runs of the console hook so far
    declared,       \* the ViewMigrationManager subclasses, in the order of their declaration
    current_migration, \* os.environ[CURRENT_MIGRATION]
    views,          \* the names of the views that exist in the database
    scopes,         \* the outermost managers of the with statement entered so far
    calls,          \* the calls of down() and up(), in order
    vpc,            \* position of the with statement
    exc,            \* the exception the with statement is being left with
    redis,          \* config.redis_host, the keys of that cache and the flushes so far
    procs           \* two processes running the lock scope at the same time

regVars == <<order, functions, names, last_register>>

runVars == <<ledger, dbview, pc, idx, successes, result, handles, log, ret, batches,
            start_ledger, redis>>

lockVars == <<flag_dir, lock_files, schema_version, hpc, hook, hook_runs, procs>>

viewVars == <<declared, current_migration, views, scopes, calls, vpc, exc>>

vars == <<order, functions, names, last_register, ledger, dbview, pc, idx,
          successes, result, handles, log, ret, batches, start_ledger, script,
          flag_dir, lock_files, schema_version, hpc, hook, hook_runs,
          declared, current_migration, views, scopes, calls, vpc, exc, redis, procs>>

(***************************************************************************)
(* MigrationStore                                                          *)
(***************************************************************************)
NoRegister == [kind |-> "none", name |-> "", requires |-> <<>>, dep |-> ""]

\* list.insert(rank, e) with a 0-based rank
ListInsert(s, rank, e) ==
    SubSeq(s, 1, rank) \o <<e>> \o SubSeq(s, rank + 1, Len(s))

\* list.index(e): 0-based position of the first occurrence
ListIndex(s, e) == (CHOOSE i \in 1..Len(s) : s[i] = e /\ \A j \in 1..(i - 1) : s[j] # e) - 1

has(name) == name \in names

\* the first dep of requires that is not in _order (0: all are known)
UnknownDep(requires) ==
    IF \E i \in 1..Len(requires) : requires[i] \notin Range(order)
    THEN CHOOSE i \in 1..Len(requires) :
            /\ requires[i] \notin Range(order)
            /\ \A j \in 1..(i - 1) : requires[j] \in Range(order)
    ELSE 0

Min(S) == CHOOSE x \in S : \A y \in S : x <= y

\* a bug: the rank follows the first of the required entries, not the last
Rank_AfterFirstDep(requires) ==
    IF requires # <<>>
    THEN Min({ListIndex(order, requires[i]) : i \in 1..Len(requires)}) + 1
    ELSE Len(order)

\* a bug: every entry is appended, whatever it requires
Rank_AlwaysAppend(requires) == Len(order)

\* a bug: an entry goes behind the entries registered with the same requires
Rank_AfterSiblings(requires) ==
    IF requires # <<>>
    THEN Max({ListIndex(order, requires[i]) : i \in 1..Len(requires)}
             \cup {i - 1 : i \in {j \in 1..Len(functions) : functions[j].requires = requires}}) + 1
    ELSE Len(order)

\* the rank register_ordered inserts at
Rank(requires) ==
    IF requires # <<>>
    THEN Max({ListIndex(order, requires[i]) : i \in 1..Len(requires)}) + 1
    ELSE Len(order)

\* the wrapper with_requires: the callable carries the names it checks
with_requires(name, required_names) == [name |-> name, requires |-> required_names]

\* an undecorated migration function
plain(name) == [name |-> name, requires |-> <<>>]

\* what a call of register_ordered leaves behind: the three collections of the
\* store and how the call ended (returned, or raised one of two ValueErrors)
Registered(fn, requires, rank) ==
    [order |-> ListInsert(order, rank, fn.name),
     functions |-> ListInsert(functions, rank, fn),
     names |-> names \cup {fn.name},
     outcome |-> [kind |-> "ok", name |-> fn.name, requires |-> requires, dep |-> ""]]

Refused(fn, requires, kind, dep) ==
    [order |-> order,
     functions |-> functions,
     names |-> names,
     outcome |-> [kind |-> kind, name |-> fn.name, requires |-> requires, dep |-> dep]]

\* a bug: the dependencies are looked up before the duplicate check
register_ordered_DepsFirst(fn, requires) ==
    IF UnknownDep(requires) # 0
    THEN Refused(fn, requires, "UnknownDependency", requires[UnknownDep(requires)])
    ELSE IF has(fn.name)
    THEN Refused(fn, requires, "DuplicateName", "")
    ELSE Registered(fn, requires, Rank(requires))

\* a bug: the name is added to _names before the dependencies are looked up
register_ordered_NameFirst(fn, requires) ==
    IF has(fn.name)
    THEN Refused(fn, requires, "DuplicateName", "")
    ELSE IF UnknownDep(requires) # 0
    THEN [Refused(fn, requires, "UnknownDependency", requires[UnknownDep(requires)])
             EXCEPT !.names = names \cup {fn.name}]
    ELSE Registered(fn, requires, Rank(requires))

register_ordered(fn, requires) ==
    IF has(fn.name)
    THEN Refused(fn, requires, "DuplicateName", "")
    ELSE IF UnknownDep(requires) # 0
    THEN Refused(fn, requires, "UnknownDependency", requires[UnknownDep(requires)])
    ELSE Registered(fn, requires, Rank(requires))

\* @migration(requires=...) applied to a function called name
migration(name, requires) ==
    IF requires # <<>>
    THEN register_ordered(with_requires(name, requires), requires)
    ELSE register_ordered(plain(name), <<>>)

reset ==
    /\ order' = <<>>
    /\ functions' = <<>>
    /\ names' = {}
    /\ last_register' = NoRegister

\* no cache is configured (config.redis_host is None)
NoRedis == [host |-> "None", keys |-> {}, flushes |-> <<>>]

RunnerIdle ==
    /\ ledger = <<>>
    /\ dbview = <<>>
    /\ pc = "idle"
    /\ idx = 0
    /\ successes = <<>>
    /\ result = "none"
    /\ handles = <<>>
    /\ log = <<>>
    /\ ret = "none"
    /\ batches = 0
    /\ start_ledger = <<>>
    /\ redis = NoRedis

StoreEmpty ==
    /\ order = <<>>
    /\ functions = <<>>
    /\ names = {}
    /\ last_register = NoRegister

\* None of Python
None == "None"

\* a process that has not started the console hook, and two of them
NoProc == [pc |-> "out", ended |-> "none", runs |-> 0]

NoProcs == [p \in {1, 2} |-> NoProc]

\* no lock scope has been entered yet
NoHook == [block |-> "none", error |-> "none", exit |-> "none", create |-> FALSE]

\* no ViewMigrationManager subclass is declared, no view exists
ViewIdle ==
    /\ declared = <<>>
    /\ current_migration = ""
    /\ views = {}
    /\ scopes = <<>>
    /\ calls = <<>>
    /\ vpc = "idle"
    /\ exc = "none"

\* the console hook has not run: no schema version is configured, the flag
\* directory exists and is empty
HookIdle ==
    /\ flag_dir = TRUE
    /\ lock_files = {}
    /\ schema_version = None
    /\ hpc = "out"
    /\ hook = NoHook
    /\ hook_runs = 0
    /\ procs = NoProcs

(***************************************************************************)
(* A migrations file: a fixed list of @migration calls, made in order.     *)
(* test_cascading_order declares c1..c6, then a1 (requires c2), a2,        *)
(* a3 (requires c4 and "c6"), a4, a5; the family below varies the three    *)
(* required names over c1..c6.                                             *)
(***************************************************************************)
CascadeBase == {"c1", "c2", "c3", "c4", "c5", "c6"}

CascadeFile(x, y, z) ==
    << plain("c1"), plain("c2"), plain("c3"), plain("c4"), plain("c5"), plain("c6"),
       with_requires("a1", <<x>>), plain("a2"), with_requires("a3", <<y, z>>),
       plain("a4"), plain("a5") >>

test_cascading_order == CascadeFile("c2", "c4", "c6")

expected_order == <<"c1", "c2", "a1", "c3", "c4", "c5", "c6", "a3", "a2", "a4", "a5">>

NoScript == [steps |-> <<>>, pos |-> 0]

(***************************************************************************)
(* The registry alone: any sequence of @migration calls and resets, or the *)
(* import of one migrations file.                                          *)
(***************************************************************************)
RegInit ==
    /\ StoreEmpty
    /\ RunnerIdle
    /\ HookIdle
    /\ ViewIdle
    /\ \/ script = NoScript
       \/ \E x \in CascadeBase, y \in CascadeBase, z \in CascadeBase :
             script = [steps |-> CascadeFile(x, y, z), pos |-> 0]

\* the requires lists tried: every list of different names, and every name given
\* twice (once by name and once by reference)
RegRequires ==
    {s \in SeqsUpTo(RegNames, MaxRegRequires) :
        \A i \in 1..Len(s), j \in 1..Len(s) : s[i] = s[j] => i = j}
    \cup {<<n, n>> : n \in RegNames}

RegRegister ==
    /\ script = NoScript
    /\ \E name \in RegNames, requires \in RegRequires :
          LET after == migration(name, requires)
          IN  /\ order' = after.order
              /\ functions' = after.functions
              /\ names' = after.names
              /\ last_register' = after.outcome
    /\ UNCHANGED runVars
    /\ UNCHANGED <<script, lockVars, viewVars, redis>>

RegReset ==
    /\ script = NoScript
    /\ order # <<>>
    /\ reset
    /\ UNCHANGED runVars
    /\ UNCHANGED <<script, lockVars, viewVars, redis>>

\* the next @migration of the file being imported
RegImport ==
    /\ script.pos < Len(script.steps)
    /\ LET after == migration(script.steps[script.pos + 1].name,
                              script.steps[script.pos + 1].requires)
       IN  /\ order' = after.order
           /\ functions' = after.functions
           /\ names' = after.names
           /\ last_register' = after.outcome
    /\ script' = [script EXCEPT !.pos = @ + 1]
    /\ UNCHANGED <<runVars, lockVars, viewVars>>

RegNext == RegRegister \/ RegReset \/ RegImport

SpecRegistry == RegInit /\ [][RegNext]_vars

(***************************************************************************)
(* The ledger: the table ewh_implemented_features                          *)
(***************************************************************************)
\* the row of `name` (rows are unique by name), or NoRow
NoRow == [name |-> "", installed |-> FALSE]

HasRow(rows, name) == \E i \in 1..Len(rows) : rows[i].name = name

RowOf(rows, name) ==
    IF HasRow(rows, name)
    THEN rows[CHOOSE i \in 1..Len(rows) :
                 rows[i].name = name /\ \A j \in 1..(i - 1) : rows[j].name # name]
    ELSE NoRow

\* a bug: a migration recorded installed = False is never tried again
should_run_NoRowOnly(rows, name) == ~HasRow(rows, name)

\* a bug: the ledger is not consulted
should_run_Always(rows, name) == TRUE

\* a bug: `row.installed is True` where the code has `is False`
should_run_Inverted(rows, name) ==
    IF HasRow(rows, name) THEN RowOf(rows, name).installed = TRUE ELSE TRUE

\* should_run(db, name): no row, or a row with installed = False
should_run(rows, name) ==
    IF HasRow(rows, name) THEN RowOf(rows, name).installed = FALSE ELSE TRUE

\* a bug: insert where the code has update_or_insert
mark_migration_Inserts(rows, name, installed) ==
    Append(rows, [name |-> name, installed |-> installed])

\* update_or_insert(name == name, name=name, installed=installed, ...)
mark_migration(rows, name, installed) ==
    IF HasRow(rows, name)
    THEN LET k == CHOOSE i \in 1..Len(rows) :
                     rows[i].name = name /\ \A j \in 1..(i - 1) : rows[j].name # name
         IN  [rows EXCEPT ![k] = [name |-> name, installed |-> installed]]
    ELSE Append(rows, [name |-> name, installed |-> installed])

\* with_requires: the rows selected by name.belongs(required_names) & installed == True
InstalledAmong(rows, required_names) ==
    {i \in 1..Len(rows) : rows[i].name \in Range(required_names) /\ rows[i].installed}

\* with_requires: len(installed) == len(required_names) and all(installed)
RequirementsMet(rows, required_names) ==
    Cardinality(InstalledAmong(rows, required_names)) = Len(required_names)

(***************************************************************************)
(* activate_migrations                                                     *)
(***************************************************************************)
\* what a migration body may return
Results == {"True", "False", "None"}

Truthy(r) == r = "True"

\* a bug: all(successes) alone
BatchResult_AllOnly(succ) ==
    IF \A i \in 1..Len(succ) : Truthy(succ[i]) THEN "True" ELSE "False"

\* a bug: any(successes) alone
BatchResult_AnyOnly(succ) ==
    IF \E i \in 1..Len(succ) : Truthy(succ[i]) THEN "True" ELSE "False"

\* any(successes) and all(successes)
BatchResult(succ) ==
    IF /\ \E i \in 1..Len(succ) : Truthy(succ[i])
       /\ \A i \in 1..Len(succ) : Truthy(succ[i])
    THEN "True"
    ELSE "False"

Handle(kind, name) == [kind |-> kind, name |-> name, open |-> TRUE, tx |-> "none"]

Event(ev, name, val, h) == [ev |-> ev, name |-> name, val |-> val, h |-> h]

\* the handle `db` of the batch, and the handle db_for_this_function of the entry
BatchHandle == 1

EntryHandle ==
    CHOOSE h \in 1..Len(handles) :
        /\ handles[h].kind = "entry"
        /\ \A g \in (h + 1)..Len(handles) : handles[g].kind # "entry"

\* MigrationStore.__iter__: the i-th pair of zip(_order, _functions)
iterate_Reversed(i) ==
    [name |-> order[Len(order) + 1 - i], function |-> functions[Len(order) + 1 - i]]

iterate(i) == [name |-> order[i], function |-> functions[i]]

\* the call of activate_migrations up to the for loop
ActivateBegin ==
    /\ pc = "idle"
    /\ batches' = batches + 1
    /\ handles' = <<Handle("batch", "")>>
    /\ dbview' = ledger
    /\ successes' = <<>>
    /\ result' = "none"
    /\ log' = <<>>
    /\ ret' = "none"
    /\ idx' = 1
    /\ pc' = "test"
    /\ start_ledger' = ledger
    /\ UNCHANGED <<regVars, ledger, script, viewVars, redis>>

\* activate_migrations called directly, as the tests call it
ActivateStart ==
    /\ batches < MaxBatches
    /\ script.pos = Len(script.steps)
    /\ ActivateBegin
    /\ UNCHANGED lockVars

\* the head of the for loop and `if should_run(db, name)`
LoopTest ==
    /\ pc = "test"
    /\ IF idx > Len(order)
       THEN /\ pc' = "finish"
            /\ UNCHANGED <<idx, log>>
       ELSE IF should_run(dbview, iterate(idx).name)
       THEN /\ pc' = "setup"
            /\ UNCHANGED <<idx, log>>
       ELSE /\ log' = Append(log, Event("skip", iterate(idx).name, "", 0))
            /\ idx' = idx + 1
            /\ pc' = "test"
    /\ UNCHANGED <<regVars, ledger, dbview, successes, result, handles, ret, batches, start_ledger, script, lockVars, viewVars, redis>>

\* db_for_this_function = setup_db()
EntrySetup ==
    /\ pc = "setup"
    /\ handles' = Append(handles, Handle("entry", iterate(idx).name))
    /\ log' = Append(log, Event("open", iterate(idx).name, "", Len(handles) + 1))
    /\ pc' = "call"
    /\ UNCHANGED <<regVars, ledger, dbview, idx, successes, result, ret, batches, start_ledger, script, lockVars, viewVars, redis>>

\* with_requires up to the call of the decorated function: the handles and the
\* log after the check of the requirements (a plain function has no such check)
\* a bug: the guard judges by the ledger as it was before the batch, not as it
\* is when the function is called
GuardPasses_StartOfBatch(fn) == fn.requires = <<>> \/ RequirementsMet(start_ledger, fn.requires)

GuardPasses(fn) == fn.requires = <<>> \/ RequirementsMet(ledger, fn.requires)

HandlesAfterGuard(fn) ==
    IF fn.requires = <<>>
    THEN handles
    ELSE Append(handles, [Handle("guard", fn.name) EXCEPT !.open = GuardPasses(fn)])

\* a bug: RequimentsNotMet is caught like an Exception raised by a body
CallGuardFails_Caught ==
    /\ pc = "call"
    /\ ~GuardPasses(iterate(idx).function)
    /\ handles' = HandlesAfterGuard(iterate(idx).function)
    /\ log' = log \o <<Event("call", iterate(idx).name, "", EntryHandle),
                       Event("requirements_not_met", iterate(idx).name, "", EntryHandle)>>
    /\ ret' = "False"
    /\ pc' = "idle"
    /\ UNCHANGED <<regVars, ledger, dbview, idx, successes, result, batches, start_ledger, script, lockVars, viewVars, redis>>

\* a bug: the entry whose guard failed is recorded as failed
CallGuardFails_Recorded ==
    /\ pc = "call"
    /\ ~GuardPasses(iterate(idx).function)
    /\ handles' = HandlesAfterGuard(iterate(idx).function)
    /\ log' = log \o <<Event("call", iterate(idx).name, "", EntryHandle),
                       Event("requirements_not_met", iterate(idx).name, "", EntryHandle)>>
    /\ dbview' = mark_migration(dbview, iterate(idx).name, FALSE)
    /\ ledger' = mark_migration(dbview, iterate(idx).name, FALSE)
    /\ ret' = "RequimentsNotMet"
    /\ pc' = "idle"
    /\ UNCHANGED <<regVars, idx, successes, result, batches, start_ledger, script, lockVars, viewVars, redis>>

\* function(db_for_this_function) where the guard raises RequimentsNotMet, which
\* `except Exception` does not catch: it leaves activate_migrations
CallGuardFails ==
    /\ pc = "call"
    /\ ~GuardPasses(iterate(idx).function)
    /\ handles' = HandlesAfterGuard(iterate(idx).function)
    /\ log' = log \o <<Event("call", iterate(idx).name, "", EntryHandle),
                       Event("requirements_not_met", iterate(idx).name, "", EntryHandle)>>
    /\ ret' = "RequimentsNotMet"
    /\ pc' = "idle"
    /\ UNCHANGED <<regVars, ledger, dbview, idx, successes, result, batches, start_ledger, script, lockVars, viewVars, redis>>

\* function(db_for_this_function) where the body returns r; successes.append(result)
CallReturns ==
    /\ pc = "call"
    /\ GuardPasses(iterate(idx).function)
    /\ \E r \in Results :
          /\ result' = r
          /\ successes' = Append(successes, r)
          /\ log' = log \o <<Event("call", iterate(idx).name, "", EntryHandle),
                             Event("invoke", iterate(idx).name, "", EntryHandle),
                             Event("return", iterate(idx).name, r, EntryHandle)>>
    /\ handles' = HandlesAfterGuard(iterate(idx).function)
    /\ pc' = "result"
    /\ UNCHANGED <<regVars, ledger, dbview, idx, ret, batches, start_ledger, script, lockVars, viewVars, redis>>

\* a bug: the entry whose body raised is recorded as failed before the return
CallRaises_MarksFailed ==
    /\ pc = "call"
    /\ GuardPasses(iterate(idx).function)
    /\ handles' = HandlesAfterGuard(iterate(idx).function)
    /\ log' = log \o <<Event("call", iterate(idx).name, "", EntryHandle),
                       Event("invoke", iterate(idx).name, "", EntryHandle),
                       Event("raise", iterate(idx).name, "", EntryHandle)>>
    /\ dbview' = mark_migration(dbview, iterate(idx).name, FALSE)
    /\ ledger' = mark_migration(dbview, iterate(idx).name, FALSE)
    /\ ret' = "False"
    /\ pc' = "idle"
    /\ UNCHANGED <<regVars, idx, successes, result, batches, start_ledger, script, lockVars, viewVars, redis>>

\* function(db_for_this_function) where the body raises an Exception: return False
CallRaises ==
    /\ pc = "call"
    /\ GuardPasses(iterate(idx).function)
    /\ handles' = HandlesAfterGuard(iterate(idx).function)
    /\ log' = log \o <<Event("call", iterate(idx).name, "", EntryHandle),
                       Event("invoke", iterate(idx).name, "", EntryHandle),
                       Event("raise", iterate(idx).name, "", EntryHandle)>>
    /\ ret' = "False"
    /\ pc' = "idle"
    /\ UNCHANGED <<regVars, ledger, dbview, idx, successes, result, batches, start_ledger, script, lockVars, viewVars, redis>>

\* a bug: the handle of the entry is committed whatever the body returned
EntryCommitOrRollback_CommitsAlways ==
    /\ pc = "result"
    /\ IF Truthy(result)
       THEN /\ handles' = [handles EXCEPT ![EntryHandle].tx = "commit"]
            /\ log' = Append(log, Event("commit", iterate(idx).name, "", EntryHandle))
            /\ UNCHANGED successes
       ELSE /\ successes' = Append(successes, "False")
            /\ handles' = [handles EXCEPT ![EntryHandle].tx = "commit"]
            /\ log' = Append(log, Event("commit", iterate(idx).name, "", EntryHandle))
    /\ pc' = "close"
    /\ UNCHANGED <<regVars, ledger, dbview, idx, result, ret, batches, start_ledger, script, lockVars, viewVars, redis>>

\* `if result:` db_for_this_function.commit(), else successes.append(False) and
\* db_for_this_function.rollback()
EntryCommitOrRollback ==
    /\ pc = "result"
    /\ IF Truthy(result)
       THEN /\ handles' = [handles EXCEPT ![EntryHandle].tx = "commit"]
            /\ log' = Append(log, Event("commit", iterate(idx).name, "", EntryHandle))
            /\ UNCHANGED successes
       ELSE /\ successes' = Append(successes, "False")
            /\ handles' = [handles EXCEPT ![EntryHandle].tx = "rollback"]
            /\ log' = Append(log, Event("rollback", iterate(idx).name, "", EntryHandle))
    /\ pc' = "close"
    /\ UNCHANGED <<regVars, ledger, dbview, idx, result, ret, batches, start_ledger, script, lockVars, viewVars, redis>>

\* db_for_this_function.close()
EntryClose ==
    /\ pc = "close"
    /\ handles' = [handles EXCEPT ![EntryHandle].open = FALSE]
    /\ log' = Append(log, Event("close", iterate(idx).name, "", EntryHandle))
    /\ pc' = "mark"
    /\ UNCHANGED <<regVars, ledger, dbview, idx, successes, result, ret, batches, start_ledger, script, lockVars, viewVars, redis>>

\* a bug: the else branch marks installed=True as well
EntryMark_AlwaysInstalled ==
    /\ pc = "mark"
    /\ dbview' = mark_migration(dbview, iterate(idx).name, TRUE)
    /\ log' = Append(log, Event("mark", iterate(idx).name, "True", EntryHandle))
    /\ pc' = "dbcommit"
    /\ UNCHANGED <<regVars, ledger, idx, successes, result, handles, ret, batches, start_ledger, script, lockVars, viewVars, redis>>

\* mark_migration(db, name, installed=True) or mark_migration(db, name, installed=False)
EntryMark ==
    /\ pc = "mark"
    /\ dbview' = mark_migration(dbview, iterate(idx).name, Truthy(result))
    /\ log' = Append(log, Event("mark", iterate(idx).name, IF Truthy(result) THEN "True" ELSE "False",
                                EntryHandle))
    /\ pc' = "dbcommit"
    /\ UNCHANGED <<regVars, ledger, idx, successes, result, handles, ret, batches, start_ledger, script, lockVars, viewVars, redis>>

\* db.commit() at the end of the loop body
LedgerCommit ==
    /\ pc = "dbcommit"
    /\ ledger' = dbview
    /\ idx' = idx + 1
    /\ pc' = "test"
    /\ UNCHANGED <<regVars, dbview, successes, result, handles, log, ret, batches, start_ledger, script, lockVars, viewVars, redis>>

\* the values of config.redis_host, with and without the scheme
RedisHosts == {"cache:6379", "redis://cache:6379"}

\* `if not redis_host.startswith("redis://"): redis_host = f"redis://{redis_host}"`
RedisUrl(host) ==
    IF host \in {h \in RedisHosts : h = "redis://cache:6379"}
    THEN host
    ELSE "redis://" \o host

\* `if redis_host := config.redis_host:` connect, keys = r.keys() and
\* `del r[key]` for each of them
FlushCache(r) ==
    IF r.host = None
    THEN r
    ELSE [r EXCEPT !.keys = {},
                   !.flushes = Append(@, [batch |-> batches, url |-> RedisUrl(r.host)])]

\* db.close(), the flush of the cache and
\* return any(successes) and all(successes)
ActivateFinish ==
    /\ pc = "finish"
    /\ handles' = [handles EXCEPT ![BatchHandle].open = FALSE]
    /\ redis' = FlushCache(redis)
    /\ ret' = BatchResult(successes)
    /\ pc' = "idle"
    /\ UNCHANGED <<regVars, ledger, dbview, idx, successes, result, log, batches, start_ledger, script, lockVars, viewVars>>

\* a migration is declared between batches (a migrations file is imported, a test
\* declares one); how the declaration ended is not observed here
Register ==
    /\ pc = "idle"
    /\ \E name \in RunNames, requires \in SeqsUpTo(RunNames, MaxRunRequires) :
          LET after == migration(name, requires)
          IN  /\ order' = after.order
              /\ functions' = after.functions
              /\ names' = after.names
    /\ UNCHANGED last_register
    /\ UNCHANGED runVars
    /\ UNCHANGED <<script, lockVars, viewVars, redis>>

Init == StoreEmpty /\ RunnerIdle /\ script = NoScript /\ HookIdle /\ ViewIdle

Next ==
    \/ Register
    \/ ActivateStart
    \/ LoopTest
    \/ EntrySetup
    \/ CallGuardFails
    \/ CallReturns
    \/ CallRaises
    \/ EntryCommitOrRollback
    \/ EntryClose
    \/ EntryMark
    \/ LedgerCommit
    \/ ActivateFinish

Spec == Init /\ [][Next]_vars

(***************************************************************************)
(* schema_versioned_lock_file and the console hook: each run of the hook   *)
(* is a new process (an empty registry) over the same database and the     *)
(* same flag directory; inside the lock scope it imports a migrations file *)
(* and runs one batch.                                                     *)
(***************************************************************************)
\* the values of SCHEMA_VERSION the runs are configured with
Versions == {"1", "2"}

\* flag_location / f"migrate-{schema_version}.complete"
LockFileName(v) == "migrate-" \o v \o ".complete"

\* the local lock_file of the running scope (None: no schema version)
lock_file == IF schema_version = None THEN None ELSE LockFileName(schema_version)

\* a bug: an existing lock file does not stop the entry
LockEntry_IgnoresLock(dir, files, v, create) ==
    IF ~dir /\ ~create
    THEN "NotADirectoryError"
    ELSE "yield"

\* a bug: a missing flag directory is never created
LockEntry_IgnoresCreate(dir, files, v, create) ==
    IF ~dir
    THEN "NotADirectoryError"
    ELSE IF v = None
    THEN "yield"
    ELSE IF LockFileName(v) \in files
    THEN "MigrateLockExists"
    ELSE "yield"

\* schema_versioned_lock_file up to its yield: what entering the scope does in
\* a flag directory that exists or not (dir) and holds files, for the schema
\* version v, with create_flag_location or config.create_flag_location = create
LockEntry(dir, files, v, create) ==
    IF ~dir /\ ~create
    THEN "NotADirectoryError"
    ELSE IF v = None
    THEN "yield"
    ELSE IF LockFileName(v) \in files
    THEN "MigrateLockExists"
    ELSE "yield"

\* a bug: the lock file is not created after the block
LockExit_NoTouch(ended) ==
    IF lock_file = None
    THEN [files |-> lock_files, error |-> IF ended = "normal" THEN "none" ELSE ended]
    ELSE IF ended = "normal"
    THEN [files |-> lock_files, error |-> "none"]
    ELSE IF ended = "MigrationFailed"
    THEN [files |-> lock_files \ {lock_file}, error |-> "none"]
    ELSE [files |-> lock_files \ {lock_file}, error |-> ended]

\* a bug: the lock file is created however the block ended
LockExit_TouchAlways(ended) ==
    IF lock_file = None
    THEN [files |-> lock_files, error |-> IF ended = "normal" THEN "none" ELSE ended]
    ELSE IF ended = "normal"
    THEN [files |-> lock_files \cup {lock_file}, error |-> "none"]
    ELSE IF ended = "MigrationFailed"
    THEN [files |-> lock_files \cup {lock_file}, error |-> "none"]
    ELSE [files |-> lock_files \cup {lock_file}, error |-> ended]

\* a bug: every error of the block is absorbed, as MigrationFailed is
LockExit_Swallows(ended) ==
    IF lock_file = None
    THEN [files |-> lock_files, error |-> IF ended = "normal" THEN "none" ELSE ended]
    ELSE IF ended = "normal"
    THEN [files |-> lock_files \cup {lock_file}, error |-> "none"]
    ELSE [files |-> lock_files \ {lock_file}, error |-> "none"]

\* a bug: without a schema version the file migrate-None.complete is created
LockExit_NoneTouches(ended) ==
    IF lock_file = None
    THEN [files |-> IF ended = "normal"
                    THEN lock_files \cup {LockFileName(None)}
                    ELSE lock_files,
          error |-> IF ended = "normal" THEN "none" ELSE ended]
    ELSE IF ended = "normal"
    THEN [files |-> lock_files \cup {lock_file}, error |-> "none"]
    ELSE IF ended = "MigrationFailed"
    THEN [files |-> lock_files \ {lock_file}, error |-> "none"]
    ELSE [files |-> lock_files \ {lock_file}, error |-> ended]

\* schema_versioned_lock_file after its yield: the files of the flag directory
\* and the error that leaves the scope when the block ended normally, with
\* MigrationFailed or with another error. Without a schema version the yield
\* stands outside the try statement.
LockExit(ended) ==
    IF lock_file = None
    THEN [files |-> lock_files, error |-> IF ended = "normal" THEN "none" ELSE ended]
    ELSE IF ended = "normal"
    THEN [files |-> lock_files \cup {lock_file}, error |-> "none"]
    ELSE IF ended = "MigrationFailed"
    THEN [files |-> lock_files \ {lock_file}, error |-> "none"]
    ELSE [files |-> lock_files \ {lock_file}, error |-> ended]

\* the migrations files the hook imports
HookFiles ==
    { <<>>,
      <<plain("m1")>>,
      <<plain("m1"), with_requires("m2", <<"m1">>)>> }

\* a new process: nothing is registered, no batch has run; the ledger is the
\* database's
HookProcessStart ==
    /\ order' = <<>>
    /\ functions' = <<>>
    /\ names' = {}
    /\ last_register' = NoRegister
    /\ script' = NoScript
    /\ dbview' = <<>>
    /\ pc' = "idle"
    /\ idx' = 0
    /\ successes' = <<>>
    /\ result' = "none"
    /\ handles' = <<>>
    /\ log' = <<>>
    /\ ret' = "none"
    /\ start_ledger' = <<>>
    /\ hook_runs' = hook_runs + 1
    /\ UNCHANGED <<ledger, batches, viewVars, redis, procs>>

\* _console_hook where the flag directory is missing and is not to be created:
\* NotADirectoryError, caught by `except BaseException`
HookEnterNoDirectory ==
    /\ hpc = "out"
    /\ hook_runs < MaxHookRuns
    /\ \E v \in Versions \cup {None}, create \in BOOLEAN :
          /\ LockEntry(flag_dir, lock_files, v, create) = "NotADirectoryError"
          /\ schema_version' = v
          /\ hook' = [block |-> "none", error |-> "NotADirectoryError", exit |-> "1",
                      create |-> create]
    /\ hpc' = "out"
    /\ HookProcessStart
    /\ UNCHANGED <<flag_dir, lock_files>>

\* _console_hook where the lock file of the schema version exists:
\* MigrateLockExists, which the hook takes for success
HookEnterLocked ==
    /\ hpc = "out"
    /\ hook_runs < MaxHookRuns
    /\ \E v \in Versions \cup {None}, create \in BOOLEAN :
          /\ LockEntry(flag_dir, lock_files, v, create) = "MigrateLockExists"
          /\ schema_version' = v
          /\ hook' = [block |-> "none", error |-> "MigrateLockExists", exit |-> "0",
                      create |-> create]
    /\ flag_dir' = TRUE
    /\ hpc' = "out"
    /\ HookProcessStart
    /\ UNCHANGED lock_files

\* _console_hook up to the first statement of the with block
HookEnterBlock ==
    /\ hpc = "out"
    /\ hook_runs < MaxHookRuns
    /\ \E v \in Versions \cup {None}, create \in BOOLEAN :
          /\ LockEntry(flag_dir, lock_files, v, create) = "yield"
          /\ schema_version' = v
          /\ hook' = [block |-> "running", error |-> "none", exit |-> "none",
                      create |-> create]
    /\ flag_dir' = TRUE
    /\ hpc' = "import"
    /\ HookProcessStart
    /\ UNCHANGED lock_files

\* the with block is left: the rest of the generator runs, then the except
\* clauses of _console_hook
HookLeave(ended, exit) ==
    /\ lock_files' = LockExit(ended).files
    /\ hook' = [block |-> ended, error |-> LockExit(ended).error, exit |-> exit,
                create |-> hook.create]
    /\ hpc' = "out"
    /\ UNCHANGED <<regVars, runVars, script, flag_dir, schema_version, hook_runs, viewVars,
                   procs>>

\* import_migrations finds no migrations file: `return 1` inside the with block
HookImportFails ==
    /\ hpc = "import"
    /\ HookLeave("normal", "1")

\* import_migrations finds a migrations file and starts importing it
HookImport ==
    /\ hpc = "import"
    /\ \E file \in HookFiles : script' = [steps |-> file, pos |-> 0]
    /\ hpc' = "activate"
    /\ UNCHANGED <<regVars, runVars, flag_dir, lock_files, schema_version, hook, hook_runs,
                   viewVars, procs>>

\* activate_migrations(config) once the file is imported
HookActivate ==
    /\ hpc = "activate"
    /\ script.pos = Len(script.steps)
    /\ ActivateBegin
    /\ hpc' = "batch"
    /\ UNCHANGED <<flag_dir, lock_files, schema_version, hook, hook_runs, procs>>

\* activate_migrations returned true: the block ends, success = True
HookBatchSucceeds ==
    /\ hpc = "batch"
    /\ pc = "idle"
    /\ ret = "True"
    /\ HookLeave("normal", "0")

\* activate_migrations returned false: raise MigrationFailed
HookBatchFails ==
    /\ hpc = "batch"
    /\ pc = "idle"
    /\ ret = "False"
    /\ HookLeave("MigrationFailed", "1")

\* activate_migrations was left by RequimentsNotMet, which leaves the block too
HookBatchError ==
    /\ hpc = "batch"
    /\ pc = "idle"
    /\ ret = "RequimentsNotMet"
    /\ HookLeave("RequimentsNotMet", "1")

LockInit ==
    /\ StoreEmpty
    /\ RunnerIdle
    /\ script = NoScript
    /\ flag_dir \in BOOLEAN
    /\ lock_files = {}
    /\ schema_version = None
    /\ hpc = "out"
    /\ hook = NoHook
    /\ hook_runs = 0
    /\ procs = NoProcs
    /\ ViewIdle

LockNext ==
    \/ HookEnterNoDirectory
    \/ HookEnterLocked
    \/ HookEnterBlock
    \/ HookImportFails
    \/ HookImport
    \/ RegImport
    \/ HookActivate
    \/ LoopTest
    \/ EntrySetup
    \/ CallGuardFails
    \/ CallReturns
    \/ CallRaises
    \/ EntryCommitOrRollback
    \/ EntryClose
    \/ EntryMark
    \/ LedgerCommit
    \/ ActivateFinish
    \/ HookBatchSucceeds
    \/ HookBatchFails
    \/ HookBatchError

SpecLock == LockInit /\ [][LockNext]_vars

(***************************************************************************)
(* Two processes in schema_versioned_lock_file at the same time, for the   *)
(* same flag directory and the same schema version                         *)
(***************************************************************************)
\* runs of the console hook per process
MaxProcRuns == 2

Procs == {1, 2}

\* how the with block of a process may end: normally, by MigrationFailed, or
\* by another error
BlockEnds == {"normal", "MigrationFailed", "RequimentsNotMet"}

\* process p runs schema_versioned_lock_file up to its yield: it finds the
\* lock file and is refused, or finds none and enters the with block
ProcEnter(p) ==
    /\ procs[p].pc = "out"
    /\ procs[p].runs < MaxProcRuns
    /\ LET entry == LockEntry(flag_dir, lock_files, schema_version, FALSE)
       IN  procs' = [procs EXCEPT ![p] =
                        [pc |-> IF entry = "yield" THEN "block" ELSE "out",
                         ended |-> IF entry = "yield" THEN "none" ELSE entry,
                         runs |-> procs[p].runs + 1]]
    /\ UNCHANGED <<regVars, runVars, script, flag_dir, lock_files, schema_version, hpc, hook,
                   hook_runs, viewVars>>

\* the with block of process p ends and the generator runs on from its yield
ProcLeave(p) ==
    /\ procs[p].pc = "block"
    /\ \E ended \in BlockEnds :
          /\ lock_files' = LockExit(ended).files
          /\ procs' = [procs EXCEPT ![p].pc = "out", ![p].ended = ended]
    /\ UNCHANGED <<regVars, runVars, script, flag_dir, schema_version, hpc, hook, hook_runs,
                   viewVars>>

RaceInit ==
    /\ StoreEmpty
    /\ RunnerIdle
    /\ ViewIdle
    /\ script = NoScript
    /\ flag_dir = TRUE
    /\ lock_files \in SUBSET {LockFileName(v) : v \in Versions}
    /\ schema_version \in Versions
    /\ hpc = "out"
    /\ hook = NoHook
    /\ hook_runs = 0
    /\ procs = NoProcs

RaceNext == \E p \in Procs : ProcEnter(p) \/ ProcLeave(p)

SpecRace == RaceInit /\ [][RaceNext]_vars

(***************************************************************************)
(* Batches over an imported migrations file, with and without a cache      *)
(* configured (tests/test_redis.py)                                        *)
(***************************************************************************)
\* the keys a client of the cache sets
RedisKeys == {"a", "b"}

\* redis_client.set(key, 1), between two batches
CacheSet ==
    /\ pc = "idle"
    /\ redis.host # None
    /\ \E key \in RedisKeys :
          /\ key \notin redis.keys
          /\ redis' = [redis EXCEPT !.keys = @ \cup {key}]
    /\ UNCHANGED <<regVars, ledger, dbview, pc, idx, successes, result, handles, log, ret,
                   batches, start_ledger, script, lockVars, viewVars>>

CacheInit ==
    /\ StoreEmpty
    /\ HookIdle
    /\ ViewIdle
    /\ ledger = <<>> /\ dbview = <<>> /\ pc = "idle" /\ idx = 0 /\ successes = <<>>
    /\ result = "none" /\ handles = <<>> /\ log = <<>> /\ ret = "none" /\ batches = 0
    /\ start_ledger = <<>>
    /\ \E file \in HookFiles : script = [steps |-> file, pos |-> 0]
    /\ \E host \in RedisHosts \cup {None} : redis = [NoRedis EXCEPT !.host = host]

CacheNext ==
    \/ RegImport
    \/ CacheSet
    \/ ActivateStart
    \/ LoopTest
    \/ EntrySetup
    \/ CallGuardFails
    \/ CallReturns
    \/ CallRaises
    \/ EntryCommitOrRollback
    \/ EntryClose
    \/ EntryMark
    \/ LedgerCommit
    \/ ActivateFinish

SpecCache == CacheInit /\ [][CacheNext]_vars

(***************************************************************************)
(* ViewMigrationManager: classes with up() and down(), linked by uses and  *)
(* _used_by, entered and left by a with statement inside a migration.      *)
(***************************************************************************)
\* outermost managers in one with statement
MaxScopes == 3

\* a subclass of ViewMigrationManager; kind tells what its up() and down() do:
\* "view" creates and drops the view called name, "noop" changes nothing,
\* "raises" raises
Decl(name, uses, since, until, kind) ==
    [name |-> name, uses |-> uses, since |-> since, until |-> until, kind |-> kind]

\* the classes of tests/test_viewmigrationsmanager.py
TestViews ==
    << Decl("StandaloneView", <<>>, "first_migration", "third_migration", "noop"),
       Decl("Ignored", <<>>, "second_migration", "", "raises"),
       Decl("MyBaseView", <<>>, "", "", "view"),
       Decl("MyChildView1", <<"MyBaseView">>, "", "", "view"),
       Decl("MyChildView2", <<"MyBaseView", "MyChildView1">>, "", "", "view") >>

\* the classes of migrations.py
ExampleViews ==
    << Decl("ExampleDependency", <<>>, "feature_3", "", "noop"),
       Decl("ExampleViewManager", <<"ExampleDependency">>, "", "", "noop") >>

\* a diamond: Base used by A and by B, D using A and B
DiamondViews ==
    << Decl("Base", <<>>, "", "", "view"),
       Decl("A", <<"Base">>, "", "", "view"),
       Decl("B", <<"Base">>, "", "", "view"),
       Decl("D", <<"A", "B">>, "", "", "view") >>

\* the declaration of the class called c
ClassOf(c) == declared[CHOOSE i \in 1..Len(declared) : declared[i].name = c]

ClassNames == {declared[i].name : i \in 1..Len(declared)}

\* a bug: the linked instances are the classes c uses
used_by_Uses(c) == ClassOf(c).uses

\* __init_subclass__: every class appends itself to _used_by of each class it
\* uses, so _used_by of c lists the classes using c in the order of declaration
used_by(c) ==
    LET users == SelectSeq(declared, LAMBDA d : c \in Range(d.uses))
    IN  [i \in 1..Len(users) |-> users[i].name]

\* db(name == m & installed == True).count()
CountInstalled(m) == Cardinality({i \in 1..Len(ledger) : ledger[i].name = m /\ ledger[i].installed})

\* a bug: the migration that is running does not count
check_since_LedgerOnly(c) ==
    IF ClassOf(c).since = ""
    THEN TRUE
    ELSE CountInstalled(ClassOf(c).since) > 0

check_since(c) ==
    IF ClassOf(c).since = ""
    THEN TRUE
    ELSE IF current_migration = ClassOf(c).since
    THEN TRUE
    ELSE CountInstalled(ClassOf(c).since) > 0

check_until(c) ==
    IF ClassOf(c).until = ""
    THEN TRUE
    ELSE CountInstalled(ClassOf(c).until) = 0

\* ViewMigrationManager.should_run
view_should_run(c) == check_since(c) /\ check_until(c)

reversed(seq) == [i \in 1..Len(seq) |-> seq[Len(seq) + 1 - i]]

\* a call of down() or up() on the instance of class cls in the scope tree of
\* the scope-th outermost manager; ok: it returned
Call(op, cls, scope, ok) == [op |-> op, cls |-> cls, scope |-> scope, ok |-> ok]

\* the views, the instances with may_go_up = True, the calls made and the
\* exception raised, as a call of __enter__ or __exit__ finds and leaves them
Effect(vs, mayup, cs, err) == [views |-> vs, mayup |-> mayup, calls |-> cs, err |-> err]

\* self.down(); self.may_go_up = True
Down(c, scope, st) ==
    IF ClassOf(c).kind = "raises"
    THEN [st EXCEPT !.calls = Append(@, Call("down", c, scope, FALSE)),
                    !.err = "body"]
    ELSE [st EXCEPT !.views = IF ClassOf(c).kind = "view" THEN @ \ {c} ELSE @,
                    !.calls = Append(@, Call("down", c, scope, TRUE)),
                    !.mayup = @ \cup {c}]

\* a bug: the store replaces a view that exists
Up_Replaces(c, scope, st) ==
    IF ClassOf(c).kind = "raises"
    THEN [st EXCEPT !.calls = Append(@, Call("up", c, scope, FALSE)),
                    !.err = "body"]
    ELSE [st EXCEPT !.views = IF ClassOf(c).kind = "view" THEN @ \cup {c} ELSE @,
                    !.calls = Append(@, Call("up", c, scope, TRUE)),
                    !.mayup = @ \ {c}]

\* self.up(); self.may_go_up = False. CREATE VIEW fails when the view exists.
Up(c, scope, st) ==
    IF ClassOf(c).kind = "raises"
    THEN [st EXCEPT !.calls = Append(@, Call("up", c, scope, FALSE)),
                    !.err = "body"]
    ELSE IF ClassOf(c).kind = "view" /\ c \in st.views
    THEN [st EXCEPT !.calls = Append(@, Call("up", c, scope, FALSE)),
                    !.err = "store"]
    ELSE [st EXCEPT !.views = IF ClassOf(c).kind = "view" THEN @ \cup {c} ELSE @,
                    !.calls = Append(@, Call("up", c, scope, TRUE)),
                    !.mayup = @ \ {c}]

RECURSIVE enter(_, _, _)
RECURSIVE EnterEach(_, _, _)
RECURSIVE exit(_, _, _)
RECURSIVE ExitEach(_, _, _)

\* a bug: should_run is not asked
enter_Always(c, scope, st) ==
    IF st.err # "none"
    THEN st
    ELSE LET linked == EnterEach(reversed(used_by(c)), scope, st)
         IN  IF linked.err # "none" THEN linked ELSE Down(c, scope, linked)

\* ViewMigrationManager.__enter__ of the instance of class c (an exception
\* raised on the way ends it)
enter(c, scope, st) ==
    IF st.err # "none"
    THEN st
    ELSE IF ~view_should_run(c)
    THEN st
    ELSE LET linked == EnterEach(reversed(used_by(c)), scope, st)
         IN  IF linked.err # "none" THEN linked ELSE Down(c, scope, linked)

\* for item in ...: item.__enter__()
EnterEach(items, scope, st) ==
    IF items = <<>>
    THEN st
    ELSE EnterEach(Tail(items), scope, enter(Head(items), scope, st))

\* a bug: the linked instances are not left
exit_SelfOnly(c, scope, st) ==
    IF st.err # "none"
    THEN st
    ELSE IF ~view_should_run(c)
    THEN st
    ELSE IF c \notin st.mayup
    THEN st
    ELSE Up(c, scope, st)

\* a bug: may_go_up is not asked
exit_IgnoresFlag(c, scope, st) ==
    IF st.err # "none"
    THEN st
    ELSE IF ~view_should_run(c)
    THEN st
    ELSE LET risen == Up(c, scope, st)
         IN  IF risen.err # "none" THEN risen ELSE ExitEach(used_by(c), scope, risen)

\* a bug: up() is called although the block raised
exit_AlwaysUp(c, scope, st) ==
    IF ~view_should_run(c)
    THEN st
    ELSE IF c \notin st.mayup
    THEN st
    ELSE ExitEach(used_by(c), scope, Up(c, scope, st))

\* ViewMigrationManager.__exit__ of the instance of class c; st.err is the
\* exception the block was left with (exc_type)
exit(c, scope, st) ==
    IF st.err # "none"
    THEN st
    ELSE IF ~view_should_run(c)
    THEN st
    ELSE IF c \notin st.mayup
    THEN st
    ELSE LET risen == Up(c, scope, st)
         IN  IF risen.err # "none" THEN risen ELSE ExitEach(used_by(c), scope, risen)

\* for item in self.instances: item.__exit__(exc_type, exc_value, tb)
ExitEach(items, scope, st) ==
    IF items = <<>>
    THEN st
    ELSE ExitEach(Tail(items), scope, exit(Head(items), scope, st))

\* an outermost manager: cls(db) with a cache of its own
Scope(cls, mayup, left) == [cls |-> cls, mayup |-> mayup, left |-> left]

\* the next manager of the with statement is constructed and entered; when its
\* __enter__ raises, the managers entered before are left with that exception
\* and its own __exit__ is not called
ViewEnter ==
    /\ vpc = "entering"
    /\ Len(scopes) < MaxScopes
    /\ \E c \in ClassNames :
          LET after == enter(c, Len(scopes) + 1, Effect(views, {}, calls, "none"))
          IN  /\ views' = after.views
              /\ calls' = after.calls
              /\ exc' = after.err
              /\ scopes' = Append(scopes, Scope(c, after.mayup, after.err # "none"))
              /\ vpc' = IF after.err = "none"
                        THEN "entering"
                        ELSE IF scopes = <<>> THEN "done" ELSE "exiting"
    /\ UNCHANGED <<regVars, runVars, script, lockVars, declared, current_migration>>

\* the block of the with statement runs and ends without raising
ViewBlockEnds ==
    /\ vpc = "entering"
    /\ scopes # <<>>
    /\ vpc' = "exiting"
    /\ UNCHANGED <<regVars, runVars, script, lockVars, declared, current_migration, views,
                   scopes, calls, exc>>

\* the block of the with statement raises
ViewBlockRaises ==
    /\ vpc = "entering"
    /\ scopes # <<>>
    /\ exc' = "block"
    /\ vpc' = "exiting"
    /\ UNCHANGED <<regVars, runVars, script, lockVars, declared, current_migration, views,
                   scopes, calls>>

\* the manager entered last among those not left yet
Innermost == CHOOSE i \in 1..Len(scopes) :
                 /\ ~scopes[i].left
                 /\ \A j \in (i + 1)..Len(scopes) : scopes[j].left

\* the with statement leaves its innermost manager: __exit__ with the exception
\* under way, which an exception raised by up() replaces
ViewExit ==
    /\ vpc = "exiting"
    /\ LET i == Innermost
           after == exit(scopes[i].cls, i, Effect(views, scopes[i].mayup, calls, exc))
       IN  /\ views' = after.views
           /\ calls' = after.calls
           /\ exc' = after.err
           /\ scopes' = [scopes EXCEPT ![i] = Scope(scopes[i].cls, after.mayup, TRUE)]
           /\ vpc' = IF \E j \in 1..Len(scopes) : j # i /\ ~scopes[j].left
                     THEN "exiting"
                     ELSE "done"
    /\ UNCHANGED <<regVars, runVars, script, lockVars, declared, current_migration>>

\* the names the since and until of the declared classes refer to, and the
\* ledgers that record each of them as installed, as failed or not at all
SinceUntil(decls) ==
    {decls[i].since : i \in 1..Len(decls)} \cup {decls[i].until : i \in 1..Len(decls)}

ViewLedgers(decls) ==
    LET known == SelectSeq(<<"first_migration", "third_migration", "feature_3">>,
                           LAMBDA m : m \in SinceUntil(decls))
    IN  { LET present == SelectSeq(known, LAMBDA m : f[m] # "absent")
          IN  [i \in 1..Len(present) |->
                  [name |-> present[i], installed |-> f[present[i]] = "True"]] :
          f \in [Range(known) -> {"absent", "False", "True"}] }

\* the migrations that execute a with statement over the declared classes, and
\* the migration a since refers to
RunningMigrations(decls) ==
    IF decls = TestViews
    THEN {"first_migration", "second_migration"}
    ELSE IF decls = ExampleViews
    THEN {"feature_3", "functionalname_date_sequencenr"}
    ELSE {"first_migration"}

\* a migration is running (CURRENT_MIGRATION is set) and is about to execute a
\* with statement over managers of the declared classes; every view exists, or
\* none
ViewInit ==
    /\ StoreEmpty
    /\ script = NoScript
    /\ HookIdle
    /\ dbview = <<>> /\ pc = "idle" /\ idx = 0 /\ successes = <<>> /\ result = "none"
    /\ handles = <<>> /\ log = <<>> /\ ret = "none" /\ batches = 0 /\ start_ledger = <<>>
    /\ redis = NoRedis
    /\ declared \in {TestViews, ExampleViews, DiamondViews}
    /\ ledger \in ViewLedgers(declared)
    /\ current_migration \in RunningMigrations(declared)
    /\ views \in {{}, {declared[i].name : i \in {j \in 1..Len(declared) : declared[j].kind = "view"}}}
    /\ scopes = <<>>
    /\ calls = <<>>
    /\ vpc = "entering"
    /\ exc = "none"

ViewNext == ViewEnter \/ ViewBlockEnds \/ ViewBlockRaises \/ ViewExit

SpecView == ViewInit /\ [][ViewNext]_vars

(***************************************************************************)
(* Claims about the registry                                               *)
(***************************************************************************)
\* 1-based position of name n in the sequence s (0 when absent)
PosIn(s, n) == IF \E i \in 1..Len(s) : s[i] = n THEN CHOOSE i \in 1..Len(s) : s[i] = n ELSE 0

\* s without its element at position p
Without(s, p) == [i \in 1..(Len(s) - 1) |-> IF i < p THEN s[i] ELSE s[i + 1]]

\* the step is a call of @migration (it records how the call ended)
RegisterCall == last_register'.kind # "none" /\ <<order, functions, names, last_register, script>>
                                                  # <<order', functions', names', last_register', script'>>

\* C1: every entry of the registry comes after every name it was registered
\* as requiring, whatever registrations (successful or failed) came before.
C1_DependenciesPrecede ==
    /\ Len(order) = Len(functions)
    /\ \A i \in 1..Len(functions) :
          /\ order[i] = functions[i].name
          /\ \A k \in 1..Len(functions[i].requires) :
                \E j \in 1..(i - 1) : order[j] = functions[i].requires[k]

\* after a failed registration, an entry with requirements stands before an
\* entry that was registered earlier than it
C1_Witness ==
    /\ last_register.kind = "DuplicateName"
    /\ \E i \in 1..Len(functions) :
          /\ i < Len(functions)
          /\ functions[i].requires # <<>>
          /\ functions[i + 1].requires = <<>>

\* C2: a successful register without requires appends; with requires it puts the
\* entry right after the last of its required entries; the entries registered
\* before keep their relative order; and the file of test_cascading_order ends
\* in the order c1, c2, a1, c3, c4, c5, c6, a3, a2, a4, a5.
C2_RegisterPosition ==
    [][ /\ (RegisterCall /\ last_register'.kind = "ok") =>
              LET n == last_register'.name
                  R == last_register'.requires
                  p == PosIn(order', n)
              IN  /\ p > 0
                  /\ R = <<>> => p = Len(order) + 1
                  /\ R # <<>> => p = 1 + Max({PosIn(order, R[k]) : k \in 1..Len(R)})
                  /\ Without(order', p) = order
        /\ (script'.steps = test_cascading_order /\ script'.pos = Len(script'.steps))
              => order' = expected_order
      ]_vars

\* the file of test_cascading_order has been imported completely
C2_Witness ==
    /\ script.steps = test_cascading_order
    /\ script.pos = Len(script.steps)
    /\ last_register.kind = "ok"
    /\ Len(order) = 11

\* C3: registering a name that is already registered fails with the duplicate
\* name error, with or without requires, known or unknown, and changes nothing.
C3_DuplicateRejected ==
    [][ (RegisterCall /\ last_register'.name \in names) =>
              /\ last_register'.kind = "DuplicateName"
              /\ order' = order
              /\ functions' = functions
              /\ names' = names
      ]_vars

\* a duplicate was rejected whose requires named an unregistered migration and
\* differed from the requires of the registered one
C3_Witness ==
    /\ last_register.kind = "DuplicateName"
    /\ \E k \in 1..Len(last_register.requires) : last_register.requires[k] \notin names
    /\ \E i \in 1..Len(functions) :
          /\ functions[i].name = last_register.name
          /\ functions[i].requires # last_register.requires

\* C4 as stated: a register whose requires holds an unregistered name fails with
\* the unknown-dependency error naming it, and leaves length and order as they were.
C4_Original ==
    [][ (RegisterCall /\ \E k \in 1..Len(last_register'.requires) :
                             last_register'.requires[k] \notin Range(order)) =>
              /\ last_register'.kind = "UnknownDependency"
              /\ last_register'.dep \in Range(last_register'.requires) \ Range(order)
              /\ Len(order') = Len(order)
              /\ order' = order
      ]_vars

\* C4 as amended: a register of a name that is not registered yet, whose requires
\* holds an unregistered name, fails with the unknown-dependency error naming the
\* first unregistered name of requires, and changes nothing.
C4_UnknownDependencyRejected ==
    [][ (RegisterCall /\ last_register'.name \notin names
                      /\ \E k \in 1..Len(last_register'.requires) :
                             last_register'.requires[k] \notin Range(order)) =>
              /\ last_register'.kind = "UnknownDependency"
              /\ \E k \in 1..Len(last_register'.requires) :
                    /\ last_register'.dep = last_register'.requires[k]
                    /\ last_register'.requires[k] \notin Range(order)
                    /\ \A j \in 1..(k - 1) : last_register'.requires[j] \in Range(order)
              /\ Len(order') = Len(order)
              /\ order' = order
              /\ functions' = functions
              /\ names' = names
      ]_vars

\* a register failed on an unregistered name although another required name
\* was registered
C4_Witness ==
    /\ last_register.kind = "UnknownDependency"
    /\ last_register.name \notin names
    /\ \E k \in 1..Len(last_register.requires) : last_register.requires[k] \in names
    /\ order # <<>>

(***************************************************************************)
(* Claims about the runner                                                 *)
(***************************************************************************)
\* the ledger rows say name is installed
Installed(rows, name) == \E i \in 1..Len(rows) : rows[i].name = name /\ rows[i].installed

\* the ledger rows hold no record of name, or one with installed = false
NotInstalled(rows, name) ==
    \/ ~(\E i \in 1..Len(rows) : rows[i].name = name)
    \/ \E i \in 1..Len(rows) : rows[i].name = name /\ rows[i].installed = FALSE

RowNames(rows) == [i \in 1..Len(rows) |-> rows[i].name]

\* the positions of the log with an event of kind ev
Events(ev) == {i \in 1..Len(log) : log[i].ev = ev}

\* the positions the step adds to the log
NewEvents == (Len(log) + 1)..Len(log')

\* C5: in a batch the entries are handled one at a time in registry order: when
\* the bodies of A and B both run and A precedes B in the registry, A's body has
\* returned and A's ledger record is written before B's body is invoked; and in a
\* first batch (empty ledger) whose bodies all return true the ledger rows are
\* created in registry order.
C5_OneAtATimeInOrder ==
    /\ \A i \in Events("invoke"), j \in Events("invoke") :
          PosIn(order, log[i].name) < PosIn(order, log[j].name) =>
              \E r \in Events("return"), m \in Events("mark") :
                  /\ i < r /\ r < m /\ m < j
                  /\ log[r].name = log[i].name
                  /\ log[m].name = log[i].name
    /\ (/\ batches = 1
        /\ pc # "idle"
        /\ \A r \in Events("return") : log[r].val = "True") =>
            /\ RowNames(dbview) = SubSeq(order, 1, Len(dbview))
            /\ pc = "finish" => RowNames(ledger) = order

\* a first batch over two entries has run both bodies and recorded both
C5_Witness ==
    /\ batches = 1
    /\ pc = "finish"
    /\ Len(order) = 2
    /\ Cardinality(Events("invoke")) = 2
    /\ RowNames(ledger) = order
    /\ \A i \in 1..Len(ledger) : ledger[i].installed

\* C6: the runner calls the registered callable of an entry if and only if the
\* ledger has no record of its name or a record with installed = false; for an
\* entry recorded installed = true it calls nothing, opens no handle and writes
\* nothing to the ledger.
C6_RunsIffNotInstalled ==
    [][ /\ (pc = "test" /\ idx <= Len(order)) =>
              IF NotInstalled(ledger, order[idx])
              THEN pc' = "setup" /\ idx' = idx
              ELSE /\ pc' = "test" /\ idx' = idx + 1
                   /\ handles' = handles
                   /\ ledger' = ledger
                   /\ dbview' = dbview
                   /\ \A k \in NewEvents : log'[k].ev = "skip"
        /\ pc = "setup" =>
              /\ pc' = "call" /\ idx' = idx
              /\ Len(handles') = Len(handles) + 1
              /\ handles'[Len(handles')].kind = "entry"
        /\ pc = "call" =>
              \E k \in NewEvents : log'[k].ev = "call" /\ log'[k].name = order[idx]
        /\ \A k \in NewEvents :
              log'[k].ev \in {"call", "invoke", "open"} => NotInstalled(ledger, log'[k].name)
      ]_vars

\* in one batch an entry recorded installed = true was skipped and an entry
\* recorded installed = false was called again
C6_Witness ==
    /\ \E i \in Events("skip") : Installed(start_ledger, log[i].name)
    /\ \E j \in Events("call") :
          \E k \in 1..Len(start_ledger) :
              start_ledger[k].name = log[j].name /\ start_ledger[k].installed = FALSE

\* every registered entry was recorded installed = true when the batch started,
\* as after a batch in which every body returned true
AllInstalledAtStart ==
    /\ order # <<>>
    /\ \A i \in 1..Len(order) : Installed(start_ledger, order[i])

RepeatedBatchIsQuiet ==
    /\ Events("call") = {}
    /\ Events("invoke") = {}
    /\ Events("mark") = {}
    /\ Events("open") = {}
    /\ ledger = start_ledger
    /\ dbview = start_ledger

Ended == pc = "idle" /\ ret # "none"

C10_InstalledOnlyAfterSuccess ==
    /\ \A m \in Events("mark") :
          log[m].val = "True" =>
              /\ \E r \in Events("return"), c \in Events("commit"), k \in Events("close") :
                    /\ r < c /\ c < k /\ k < m
                    /\ log[r].name = log[m].name /\ Truthy(log[r].val)
                    /\ log[r].h = log[m].h /\ log[c].h = log[m].h /\ log[k].h = log[m].h
              /\ \A r \in Events("return") :
                    log[r].name = log[m].name => Truthy(log[r].val)
              /\ handles[log[m].h].kind = "entry"
              /\ handles[log[m].h].name = log[m].name
              /\ handles[log[m].h].tx = "commit"
              /\ ~handles[log[m].h].open
    /\ \A i \in 1..Len(dbview) :
          dbview[i].installed =>
              \/ Installed(start_ledger, dbview[i].name)
              \/ \E m \in Events("mark") : log[m].name = dbview[i].name /\ log[m].val = "True"
    /\ \A i \in 1..Len(ledger) :
          ledger[i].installed =>
              \/ Installed(start_ledger, ledger[i].name)
              \/ \E m \in Events("mark") : log[m].name = ledger[i].name /\ log[m].val = "True"
    /\ \A e \in Events("return") \cup Events("raise") :
          (log[e].ev = "raise" \/ ~Truthy(log[e].val)) =>
              ~Installed(ledger, log[e].name) /\ ~Installed(dbview, log[e].name)

\* in one batch one entry was recorded installed = true and another, whose body
\* returned False, installed = false
C10_Witness ==
    /\ \E m \in Events("mark") : log[m].val = "True" /\ Installed(ledger, log[m].name)
    /\ \E r \in Events("return") :
          /\ log[r].val = "False"
          /\ \E i \in 1..Len(ledger) : ledger[i].name = log[r].name /\ ~ledger[i].installed

(***************************************************************************)
(* Claims about bodies that fail and about the requirement guard           *)
(***************************************************************************)
\* the row mark_migration leaves for name
Row(name, installed) == [name |-> name, installed |-> installed]

C12_RaiseAborts ==
    \A e \in Events("raise") :
        LET n == log[e].name
        IN  /\ e = Len(log)
            /\ Ended
            /\ ret = "False"
            /\ HasRow(ledger, n) <=> HasRow(start_ledger, n)
            /\ RowOf(ledger, n) = RowOf(start_ledger, n)
            /\ \A m \in Events("mark") :
                  /\ m < e
                  /\ log[m].name # n
                  /\ RowOf(ledger, log[m].name) = Row(log[m].name, log[m].val = "True")
            /\ \A i \in 1..Len(start_ledger) :
                  (\A m \in Events("mark") : log[m].name # start_ledger[i].name) =>
                      RowOf(ledger, start_ledger[i].name) = start_ledger[i]
            /\ Len(ledger) = Len(start_ledger) +
                  Cardinality({m \in Events("mark") : ~HasRow(start_ledger, log[m].name)})

\* a body raised in a batch that had recorded an earlier entry as installed; the
\* failing entry had been recorded installed = false by the batch before
C12_Witness ==
    /\ Ended
    /\ batches = 2
    /\ \E e \in Events("raise") :
          /\ RowOf(start_ledger, log[e].name) = Row(log[e].name, FALSE)
          /\ RowOf(ledger, log[e].name) = Row(log[e].name, FALSE)
          /\ \E m \in Events("mark") :
                /\ log[m].val = "True"
                /\ ~Installed(start_ledger, log[m].name)
                /\ Installed(ledger, log[m].name)

\* C13 as stated: when the guard of an entry fails during a batch, the batch is
\* aborted and activate_migrations returns false to its caller.
C13_Original ==
    (Ended /\ Events("requirements_not_met") # {}) => ret = "False"

\* C13 as amended: when the guard of an entry fails during a batch, the runner
\* does not handle it as it handles an error raised by a body: the batch ends
\* there, with the requirements-not-met error reaching the caller of
\* activate_migrations and no value returned; the body was not invoked and
\* nothing is left uncommitted.
C13_GuardFailureLeavesBatch ==
    \A g \in Events("requirements_not_met") :
        /\ g = Len(log)
        /\ Ended
        /\ ret = "RequimentsNotMet"
        /\ ret \notin {"True", "False"}
        /\ Events("raise") = {}
        /\ \A i \in Events("invoke") : log[i].name # log[g].name
        /\ log[g - 1] = Event("call", log[g].name, "", log[g].h)
        /\ dbview = ledger

\* in a second batch the guard of an entry failed, its requirement being
\* recorded installed = false since the first batch
C13_Witness ==
    /\ Ended
    /\ batches = 2
    /\ ret = "RequimentsNotMet"
    /\ \E g \in Events("requirements_not_met") :
          \E k \in 1..Len(functions[PosIn(order, log[g].name)].requires) :
              LET d == functions[PosIn(order, log[g].name)].requires[k]
              IN  /\ RowOf(start_ledger, d) = Row(d, FALSE)
                  /\ RowOf(ledger, d) = Row(d, FALSE)

\* the requires of the registered entry called name
RequiresOf(name) == functions[PosIn(order, name)].requires

\* C14: when the body of a dependency returned false and its dependent is
\* attempted later in the same batch, the requirements-not-met error leaves
\* activate_migrations as it was raised; the ledger then holds installed = false
\* for the dependency and for the dependent what it held before the batch; and
\* when the ledger was empty and only these two entries were attempted, it
\* holds exactly one record, the dependency's, with installed = false.
C14_DependencyFailurePropagates ==
    \A g \in Events("requirements_not_met"), r \in Events("return") :
        (~Truthy(log[r].val) /\ log[r].name \in Range(RequiresOf(log[g].name))) =>
            LET dep == log[r].name
                dependent == log[g].name
            IN  /\ r < g
                /\ Ended
                /\ ret = "RequimentsNotMet"
                /\ RowOf(ledger, dep) = Row(dep, FALSE)
                /\ HasRow(ledger, dependent) <=> HasRow(start_ledger, dependent)
                /\ RowOf(ledger, dependent) = RowOf(start_ledger, dependent)
                /\ (/\ start_ledger = <<>>
                    /\ \A c \in Events("call") : log[c].name \in {dep, dependent}) =>
                        /\ ledger = <<Row(dep, FALSE)>>
                        /\ \A i \in 1..Len(ledger) : ~ledger[i].installed
                        /\ ~HasRow(ledger, dependent)

\* test_dependency_failure: on an empty ledger the dependency returned False,
\* the dependent was attempted, and the ledger holds the one record
C14_Witness ==
    /\ Ended
    /\ batches = 1
    /\ start_ledger = <<>>
    /\ ret = "RequimentsNotMet"
    /\ Len(order) = 2
    /\ RequiresOf(order[2]) = <<order[1]>>
    /\ \E r \in Events("return") : log[r].name = order[1] /\ log[r].val = "False"
    /\ \E g \in Events("requirements_not_met") : log[g].name = order[2]
    /\ ledger = <<Row(order[1], FALSE)>>

\* C15: the body of an entry registered with requires is invoked only when, at
\* that moment, the ledger records installed = true for every required name;
\* when some required name is not so recorded the guard raises the
\* requirements-not-met error and the body is not invoked. Only the ledger at
\* the moment of the call counts: an entry with one requirement is invoked
\* exactly when that requirement is recorded installed = true then, whatever
\* the ledger held when the entry was registered.
C15_GuardAtInvocation ==
    [][ pc = "call" =>
          LET R == iterate(idx).function.requires
              invoked == \E k \in NewEvents :
                             log'[k].ev = "invoke" /\ log'[k].name = iterate(idx).name
              refused == \E k \in NewEvents :
                             /\ log'[k].ev = "requirements_not_met"
                             /\ log'[k].name = iterate(idx).name
          IN  R # <<>> =>
                 /\ invoked => \A k \in 1..Len(R) : Installed(ledger, R[k])
                 /\ (\E k \in 1..Len(R) : ~Installed(ledger, R[k])) =>
                        /\ refused
                        /\ ~invoked
                        /\ ret' = "RequimentsNotMet"
                 /\ Len(R) = 1 => (invoked <=> Installed(ledger, R[1]))
                 /\ invoked # refused
      ]_vars

\* the body of an entry was invoked whose requirement was recorded installed =
\* false when the batch started (it was never installed before, so neither when
\* the entry was registered) and installed = true by the time of the call
C15_Witness ==
    /\ batches = 2
    /\ \E i \in Events("invoke") :
          /\ Len(RequiresOf(log[i].name)) = 1
          /\ RowOf(start_ledger, RequiresOf(log[i].name)[1])
                = Row(RequiresOf(log[i].name)[1], FALSE)
          /\ Installed(ledger, RequiresOf(log[i].name)[1])

\* C16 as stated, for a registry with at least one entry: in the first batch,
\* on an empty ledger, if every body that is invoked returns true then no guard
\* fails, every registered entry ends recorded installed = true, and the batch
\* returns true.
C16_Original ==
    (/\ batches = 1
     /\ start_ledger = <<>>
     /\ Events("raise") = {}
     /\ \A r \in Events("return") : log[r].val = "True") =>
        /\ Events("requirements_not_met") = {}
        /\ pc = "finish" => \A i \in 1..Len(order) : Installed(ledger, order[i])
        /\ (Ended /\ Events("call") # {}) => ret = "True"

\* C17: over any sequence of batches, a name the ledger records installed =
\* true stays recorded installed = true, and while it is so recorded its body is
\* not invoked; within one batch a body is invoked at most once, and never for a
\* name that was recorded installed = true when the batch started.
C17_AtMostOneSuccess ==
    [][ /\ \A i \in 1..Len(ledger) :
              ledger[i].installed =>
                  /\ Installed(ledger', ledger[i].name)
                  /\ \A k \in NewEvents :
                        log'[k].name = ledger[i].name => log'[k].ev = "skip"
        /\ \A i \in Events("invoke")', j \in Events("invoke")' :
              log'[i].name = log'[j].name => i = j
        /\ \A i \in Events("invoke")' : ~Installed(start_ledger', log'[i].name)
      ]_vars

\* in a second batch the entry installed by the first was skipped, and the
\* entry the first had recorded installed = false was invoked again and installed
C17_Witness ==
    /\ batches = 2
    /\ Ended
    /\ \E k \in Events("skip") :
          /\ Installed(start_ledger, log[k].name)
          /\ \A i \in Events("invoke") : log[i].name # log[k].name
    /\ \E r \in Events("return") :
          /\ log[r].val = "True"
          /\ RowOf(start_ledger, log[r].name) = Row(log[r].name, FALSE)
          /\ Installed(ledger, log[r].name)

(***************************************************************************)
(* Claims about the lock scope                                             *)
(***************************************************************************)
\* the step starts a run of the console hook, which enters the lock scope
EntersScope == hook_runs' = hook_runs + 1

\* C18: when the lock file of the configured schema version exists as the lock
\* scope is entered, the entry fails at once with the lock-exists error: the
\* block is not executed (nothing is imported, no batch is started, no body is
\* invoked), the ledger is as it was, and the lock file still exists.
C18_LockExistsRefusesEntry ==
    [][ /\ (/\ EntersScope
            /\ schema_version' # None
            /\ LockFileName(schema_version') \in lock_files) =>
               /\ hook'.error = "MigrateLockExists"
               /\ hook'.block = "none"
               /\ hpc' = "out"
               /\ pc' = "idle"
               /\ order' = <<>>
               /\ log' = <<>>
               /\ batches' = batches
               /\ ledger' = ledger
               /\ lock_files' = lock_files
        /\ hook.error = "MigrateLockExists" =>
               /\ hpc = "out"
               /\ lock_file \in lock_files
               /\ (ledger' # ledger \/ log' # log) => EntersScope
      ]_vars

\* a run found the lock file of its schema version, left by an earlier run, and
\* ended at once; the ledger holds what the earlier run recorded
C18_Witness ==
    /\ hook.error = "MigrateLockExists"
    /\ hook.block = "none"
    /\ hook_runs >= 2
    /\ lock_file \in lock_files
    /\ ledger # <<>>
    /\ log = <<>>

C20_FailureAllowsRetry ==
    /\ []((hpc = "out" /\ hook.block = "MigrationFailed" /\ schema_version # None) =>
              /\ lock_file \notin lock_files
              /\ hook.error = "none")
    /\ [][ (/\ hook.block = "MigrationFailed"
            /\ schema_version # None
            /\ EntersScope
            /\ schema_version' = schema_version) =>
               /\ hook'.error = "none"
               /\ hook'.block = "running"
               /\ hpc' = "import"
         ]_vars

\* the batch inside the scope returned false, the block raised MigrationFailed,
\* the scope absorbed it, no lock file was left, and a further run can follow
C20_Witness ==
    /\ hpc = "out"
    /\ hook.block = "MigrationFailed"
    /\ hook.error = "none"
    /\ ret = "False"
    /\ schema_version # None
    /\ lock_file \notin lock_files
    /\ \E i \in 1..Len(ledger) : ~ledger[i].installed
    /\ hook_runs < MaxHookRuns

\* C21: when the block leaves the lock scope of a schema version with an error
\* other than MigrationFailed, no lock file of that version exists afterwards
\* and that same error leaves the scope.
C21_OtherErrorPropagates ==
    (/\ hpc = "out"
     /\ hook.block \notin {"none", "running", "normal", "MigrationFailed"}
     /\ schema_version # None) =>
        /\ lock_file \notin lock_files
        /\ hook.error = hook.block
        /\ hook.exit = "1"

\* the batch inside the scope of a schema version was left by RequimentsNotMet,
\* which left the scope as well; no lock file of the version exists
C21_Witness ==
    /\ hpc = "out"
    /\ schema_version # None
    /\ ret = "RequimentsNotMet"
    /\ hook.block = "RequimentsNotMet"
    /\ hook.error = "RequimentsNotMet"
    /\ lock_file \notin lock_files

\* C22 as stated: in the flow of the console hook a lock file of schema version
\* V comes to exist only as a batch run under V has returned success; and an
\* entry of the scope for a version whose lock file is absent, in a flag
\* directory that exists, reaches the block.
C22_Original ==
    [][ /\ \A f \in lock_files' \ lock_files :
              /\ f = lock_file
              /\ hpc = "batch"
              /\ pc = "idle"
              /\ ret = "True"
        /\ (/\ EntersScope
            /\ flag_dir
            /\ schema_version' # None
            /\ LockFileName(schema_version') \notin lock_files) =>
               /\ hook'.block = "running"
               /\ hpc' = "import"
      ]_vars

\* C23: when no schema version is configured, entering the lock scope (in a
\* flag directory that exists or is created) gives no lock file name and reaches
\* the block whatever lock files exist; and however the block ends, the files
\* of the flag directory are the same after the scope as before it.
C23_NoVersionNoLock ==
    [][ /\ (/\ EntersScope
            /\ schema_version' = None
            /\ (flag_dir \/ hook'.create)) =>
               /\ hook'.block = "running"
               /\ hook'.error = "none"
               /\ hpc' = "import"
               /\ lock_file' = None
               /\ lock_files' = lock_files
        /\ (schema_version = None /\ schema_version' = None) => lock_files' = lock_files
      ]_vars

\* a run without a schema version ran its batch and left the scope normally,
\* in a flag directory that holds the lock file an earlier run created; no
\* other file was created
C23_Witness ==
    /\ hpc = "out"
    /\ schema_version = None
    /\ hook.block = "normal"
    /\ ret = "True"
    /\ lock_files # {}
    /\ LockFileName(None) \notin lock_files

\* C24: when the flag directory does not exist, entering the lock scope creates
\* it if creation is enabled, and otherwise fails with the missing-directory
\* error: the block is not reached, the directory is not created and no lock
\* file exists to be looked at.
C24_MissingDirectory ==
    [][ (EntersScope /\ ~flag_dir) =>
            /\ lock_files = {}
            /\ lock_files' = {}
            /\ IF hook'.create
               THEN /\ flag_dir'
                    /\ hook'.error = "none"
                    /\ hook'.block = "running"
                    /\ hpc' = "import"
               ELSE /\ ~flag_dir'
                    /\ hook'.error = "NotADirectoryError"
                    /\ hook'.block = "none"
                    /\ hook'.exit = "1"
                    /\ hpc' = "out"
                    /\ pc' = "idle"
                    /\ batches' = batches
                    /\ ledger' = ledger
      ]_vars

\* two runs in a row failed on the missing flag directory, creation not being
\* enabled: the directory is still missing and nothing was run
C24_Witness ==
    /\ hook_runs = 2
    /\ batches = 0
    /\ ~flag_dir
    /\ ~hook.create
    /\ hook.error = "NotADirectoryError"
    /\ hook.block = "none"
    /\ ledger = <<>>

(***************************************************************************)
(* Claims about the view managers                                          *)
(***************************************************************************)
\* the down() or up() calls made on class c in the tree of the scope-th
\* outermost manager, as positions of the log
CallsOf(op, c, scope) ==
    {k \in 1..Len(calls) : calls[k].op = op /\ calls[k].cls = c /\ calls[k].scope = scope}

\* C25: while a migration is executing, a view node is relevant if and only if
\* (its since is unset, or names the executing migration, or is recorded
\* installed = true in the ledger) and (its until is unset, or is not recorded
\* installed = true in the ledger); and an outermost manager has had its
\* down() called exactly when it is relevant in that sense.
C25_Relevance ==
    \A c \in ClassNames :
        LET relevant ==
                /\ \/ ClassOf(c).since = ""
                   \/ ClassOf(c).since = current_migration
                   \/ Installed(ledger, ClassOf(c).since)
                /\ \/ ClassOf(c).until = ""
                   \/ ~Installed(ledger, ClassOf(c).until)
        IN  /\ view_should_run(c) <=> relevant
            /\ \A s \in 1..Len(scopes) :
                  scopes[s].cls = c => (CallsOf("down", c, s) # {} <=> relevant)

\* StandaloneView was entered inside first_migration, which the ledger does not
\* record as installed: it is relevant only because its since names the
\* migration that is executing, and its down() was called
C25_Witness ==
    /\ current_migration = "first_migration"
    /\ ~Installed(ledger, "first_migration")
    /\ ~Installed(ledger, "third_migration")
    /\ Len(scopes) >= 1
    /\ scopes[1].cls = "StandaloneView"
    /\ ClassOf("StandaloneView").since = "first_migration"
    /\ CallsOf("down", "StandaloneView", 1) # {}

\* C26: a node that is not relevant never has its down() or up() called; and
\* entering and leaving an outermost manager that is not relevant calls nothing
\* in its tree, linked instances included, and leaves may_go_up of every
\* instance of the tree as it was (False).
C26_IrrelevantNoOp ==
    /\ \A k \in 1..Len(calls) : view_should_run(calls[k].cls)
    /\ \A s \in 1..Len(scopes) :
          ~view_should_run(scopes[s].cls) =>
              /\ scopes[s].mayup = {}
              /\ \A k \in 1..Len(calls) : calls[k].scope # s

\* ExampleDependency was entered and left in a migration other than feature_3,
\* feature_3 not being installed: nothing was called, neither on it nor on
\* ExampleViewManager, which is linked to it and is relevant
C26_Witness ==
    /\ vpc = "done"
    /\ exc = "none"
    /\ Len(scopes) = 1
    /\ scopes[1].cls = "ExampleDependency"
    /\ scopes[1].left
    /\ ~view_should_run("ExampleDependency")
    /\ used_by("ExampleDependency") = <<"ExampleViewManager">>
    /\ view_should_run("ExampleViewManager")
    /\ calls = <<>>

\* position of the first call of op on class c in the tree of the scope-th
\* outermost manager (0 when there is none)
FirstCall(op, c, scope) ==
    IF CallsOf(op, c, scope) = {}
    THEN 0
    ELSE CHOOSE k \in CallsOf(op, c, scope) : \A j \in CallsOf(op, c, scope) : k <= j

\* the outermost managers of a class child that uses a class base without
\* dependencies, both relevant, once __enter__ has returned
ChildOverBase(child, base, scope) ==
    /\ scope \in 1..Len(scopes)
    /\ scopes[scope].cls = child
    /\ base \in Range(ClassOf(child).uses)
    /\ ClassOf(base).uses = <<>>
    /\ view_should_run(child)
    /\ view_should_run(base)
    /\ CallsOf("down", child, scope) # {}

\* C27 as stated: entering Child alone invokes Base.down() and then
\* Child.down(); leaving it normally invokes Child.up() and then Base.up().
C27_Original ==
    \A child, base \in ClassNames :
        ChildOverBase(child, base, 1) =>
            /\ FirstCall("down", base, 1) # 0
            /\ FirstCall("down", base, 1) < FirstCall("down", child, 1)
            /\ (scopes[1].left /\ exc = "none") =>
                  /\ FirstCall("up", child, 1) # 0
                  /\ FirstCall("up", child, 1) < FirstCall("up", base, 1)

\* C27, amended: the linked instances of a node are the nodes that use it.
\* Entering Child never calls down() or up() on the Base it uses; entering
\* Base calls Child.down() and then Base.down(), and leaving it normally calls
\* Base.up() and then Child.up().
C27_DependentsGoDownFirst ==
    \A child, base \in ClassNames :
        \A s \in 1..Len(scopes) :
            /\ ChildOverBase(child, base, s) =>
                  /\ CallsOf("down", base, s) = {}
                  /\ CallsOf("up", base, s) = {}
            /\ (/\ scopes[s].cls = base
                /\ base \in Range(ClassOf(child).uses)
                /\ ClassOf(base).uses = <<>>
                /\ view_should_run(child)
                /\ view_should_run(base)
                /\ CallsOf("down", base, s) # {}) =>
                  /\ FirstCall("down", child, s) # 0
                  /\ FirstCall("down", child, s) < FirstCall("down", base, s)
                  /\ (scopes[s].left /\ exc = "none") =>
                        /\ FirstCall("up", base, s) # 0
                        /\ FirstCall("up", child, s) # 0
                        /\ FirstCall("up", base, s) < FirstCall("up", child, s)

\* ExampleViewManager, which uses ExampleDependency, was entered alone and left
\* normally, both being relevant: only its own down() and up() were called
C27_Witness ==
    /\ vpc = "done"
    /\ exc = "none"
    /\ ChildOverBase("ExampleViewManager", "ExampleDependency", 1)
    /\ Len(scopes) = 1
    /\ scopes[1].left
    /\ calls = << Call("down", "ExampleViewManager", 1, TRUE),
                  Call("up", "ExampleViewManager", 1, TRUE) >>

\* C28: within the tree of one outermost manager (one instance cache), down()
\* is called at most once while entering and up() at most once while leaving,
\* for every class of the tree, also when the class is linked along several
\* paths.
C28_Original ==
    \A s \in 1..Len(scopes) :
        \A c \in ClassNames :
            /\ Cardinality(CallsOf("down", c, s)) <= 1
            /\ Cardinality(CallsOf("up", c, s)) <= 1

ScopeClasses == [s \in 1..Len(scopes) |-> scopes[s].cls]

\* the view of class c was dropped in the trees of two outermost managers
TornDownTwice(c) ==
    \E i, j \in 1..Len(scopes) :
        /\ i # j
        /\ CallsOf("down", c, i) # {}
        /\ CallsOf("down", c, j) # {}

\* C30: outermost managers of related classes in one with statement (each with
\* a cache of its own, as in `with MyChildView2(db), MyBaseView(db),
\* MyChildView1(db)`) drop the same view more than once, and when the block
\* ends normally the store rejects the second creation of that view, so the
\* statement ends with the store's error; a with statement over a single
\* outermost manager never ends with the store's error.
C30_IndependentScopesCollide ==
    /\ (vpc = "done" /\ exc \notin {"block", "body"}) =>
          /\ ScopeClasses = <<"MyChildView2", "MyBaseView", "MyChildView1">> =>
                /\ TornDownTwice("MyChildView2")
                /\ TornDownTwice("MyChildView1")
          /\ \A c \in ClassNames :
                (ClassOf(c).kind = "view" /\ TornDownTwice(c)) => exc = "store"
    /\ Len(scopes) = 1 => exc # "store"

\* with MyChildView2(db), MyBaseView(db), MyChildView1(db) was left after a
\* block that did not raise: CREATE VIEW of MyChildView1, which the innermost
\* manager had created again, failed in the tree of MyBaseView
C30_Witness ==
    /\ vpc = "done"
    /\ exc = "store"
    /\ ScopeClasses = <<"MyChildView2", "MyBaseView", "MyChildView1">>
    /\ \E k \in 1..Len(calls) : calls[k] = Call("up", "MyChildView1", 2, FALSE)
    /\ \E k \in 1..Len(calls) : calls[k] = Call("up", "MyChildView1", 3, TRUE)

(***************************************************************************)
(* Claims about the handles, the cache and the records of a batch          *)
(***************************************************************************)
\* C31: the handle db that activate_migrations opened is closed when
\* activate_migrations returns a value, after the last entry as well as when
\* the batch is aborted because a body raised.
C31_Original ==
    (pc = "idle" /\ batches > 0 /\ ret \in {"True", "False"}) =>
        ~handles[BatchHandle].open

\* the flushes of the cache made by the batch under way or just ended
FlushesOfBatch == SelectSeq(redis.flushes, LAMBDA f : f.batch = batches)

\* C32: at the step with which activate_migrations returns a value, with a
\* cache configured every key of the cache is gone and the batch has flushed
\* the cache exactly once, after normal completion as well as after an early
\* abort; no other step of the batch flushes; and with no cache configured
\* the cache is never called.
C32_Original ==
    [][ /\ (pc # "idle" /\ pc' = "idle" /\ ret' \in {"True", "False"}) =>
              IF redis.host # None
              THEN /\ Len(FlushesOfBatch') = 1
                   /\ redis'.keys = {}
              ELSE redis' = redis
        /\ (pc # "idle" /\ pc' # "idle") => redis' = redis
        /\ redis.host = None => redis' = NoRedis
      ]_vars

(***************************************************************************)
(* Claims about the order and the pairing of down() and up()               *)
(***************************************************************************)
\* C33: in the tree of one outermost manager, all classes relevant and the
\* with statement left normally, for every class X that uses a class Y, both
\* torn down in the tree: X.down() is called before Y.down(), and Y.up() is
\* called before X.up(), in a diamond as well.
C33_Original ==
    \A s \in 1..Len(scopes) :
        \A X, Y \in ClassNames :
            (/\ Y \in Range(ClassOf(X).uses)
             /\ \A c \in ClassNames : view_should_run(c)
             /\ CallsOf("down", X, s) # {}
             /\ CallsOf("down", Y, s) # {}) =>
                /\ FirstCall("down", X, s) < FirstCall("down", Y, s)
                /\ (/\ scopes[s].left
                    /\ exc = "none"
                    /\ CallsOf("up", X, s) # {}
                    /\ CallsOf("up", Y, s) # {}) =>
                       FirstCall("up", Y, s) < FirstCall("up", X, s)

\* C34: up() is called on an instance only if down() was called on that
\* instance before and returned, and up() has not been called on it since: an
\* instance that never went down, or that is up again, is not brought up.
C34_UpOnlyAfterDown ==
    \A k \in 1..Len(calls) :
        calls[k].op = "up" =>
            \E j \in 1..(k - 1) :
                /\ calls[j] = Call("down", calls[k].cls, calls[k].scope, TRUE)
                /\ \A i \in (j + 1)..(k - 1) :
                      ~(/\ calls[i].op = "up"
                        /\ calls[i].cls = calls[k].cls
                        /\ calls[i].scope = calls[k].scope)

\* MyBaseView was entered and left normally: the MyChildView2 instance, linked
\* to MyBaseView and to MyChildView1, had __exit__ called twice and up() once
C34_Witness ==
    /\ vpc = "done"
    /\ exc = "none"
    /\ Len(scopes) = 1
    /\ scopes[1].cls = "MyBaseView"
    /\ used_by("MyBaseView") = <<"MyChildView1", "MyChildView2">>
    /\ used_by("MyChildView1") = <<"MyChildView2">>
    /\ Cardinality(CallsOf("up", "MyChildView2", 1)) = 1
    /\ scopes[1].mayup = {}

\* C35: once an outermost manager has been left without an exception (the
\* ledger and CURRENT_MIGRATION being what they were on entry), every instance
\* of its tree whose down() was called has had up() called after it and is
\* not waiting to go up, and the view of every such class exists again.
C35_NormalExitRestoresAll ==
    \A s \in 1..Len(scopes) :
        (scopes[s].left /\ exc = "none") =>
            /\ scopes[s].mayup = {}
            /\ \A c \in ClassNames :
                  CallsOf("down", c, s) # {} =>
                      /\ \E k \in CallsOf("up", c, s) :
                            /\ calls[k].ok
                            /\ \A j \in CallsOf("down", c, s) : j < k
                      /\ ClassOf(c).kind = "view" => c \in views

\* with Base(db) over the diamond was left normally: Base, A, B and D went
\* down and all four are up again
C35_Witness ==
    /\ vpc = "done"
    /\ exc = "none"
    /\ declared = DiamondViews
    /\ Len(scopes) = 1
    /\ scopes[1].cls = "Base"
    /\ scopes[1].left
    /\ \A c \in {"Base", "A", "B", "D"} :
          CallsOf("down", c, 1) # {} /\ CallsOf("up", c, 1) # {}
    /\ views = {"Base", "A", "B", "D"}

(***************************************************************************)
(* Claims about the guard with repeated names, the records of the ledger,  *)
(* the handles of the entries and the order of dependents                  *)
(***************************************************************************)
\* C36: when the runner calls a guarded migration and every name in its
\* requires is recorded installed = true in the ledger, the guard does not
\* raise: it calls the wrapped body with the handle it was given, and what the
\* body returns is the result of the call; so too when requires names the same
\* dependency twice.
C36_Original ==
    [][ (/\ pc = "call"
         /\ pc' # "call"
         /\ iterate(idx).function.requires # <<>>
         /\ \A n \in Range(iterate(idx).function.requires) : Installed(ledger, n)) =>
            /\ ret' # "RequimentsNotMet"
            /\ \E k \in (Len(log) + 1)..Len(log') :
                  /\ log'[k].ev = "invoke"
                  /\ log'[k].name = iterate(idx).name
                  /\ log'[k].h = EntryHandle
            /\ \A k \in (Len(log) + 1)..Len(log') :
                  log'[k].ev = "return" => result' = log'[k].val
      ]_vars

\* C37: over any sequence of batches the ledger holds at most one record per
\* migration name, and no step removes the record of a name: a repeated
\* attempt of a name overwrites its record, and a step adds at most one record.
C37_OneRecordPerName ==
    [][ /\ \A i, j \in 1..Len(ledger') : ledger'[i].name = ledger'[j].name => i = j
        /\ \A i \in 1..Len(ledger) : HasRow(ledger', ledger[i].name)
        /\ Len(ledger') <= Len(ledger) + 1
        /\ \A i \in 1..Len(ledger) :
              (ledger[i].installed = FALSE /\ Installed(ledger', ledger[i].name)) =>
                  Len(ledger') = Len(ledger)
      ]_vars

\* a second batch attempted again the migration the first batch had recorded
\* installed = false: its one record now says installed = true
C37_Witness ==
    /\ batches = 2
    /\ pc = "idle"
    /\ ret = "True"
    /\ start_ledger = <<[name |-> "m1", installed |-> FALSE]>>
    /\ ledger = <<[name |-> "m1", installed |-> TRUE]>>

\* C38: the handle the runner opens for an entry is a new one, different from
\* the handle of the batch and from the handles of the other entries, and it
\* is closed when the runner goes on to the next entry or returns a value,
\* whether the body returned something truthy, something falsy, or raised.
C38_Original ==
    /\ \A h \in 1..Len(handles) :
          handles[h].kind = "entry" =>
              /\ h # BatchHandle
              /\ \E k \in 1..Len(log) : log[k] = Event("open", handles[h].name, "", h)
              /\ \A g \in 1..Len(handles) :
                    (handles[g].kind = "entry" /\ handles[g].name = handles[h].name) => g = h
    /\ (pc \in {"test", "finish"} \/ (pc = "idle" /\ ret \in {"True", "False"})) =>
          \A h \in 1..Len(handles) : handles[h].kind = "entry" => ~handles[h].open

\* the name a step registers (the step adds one name to the registry)
Registers(n) == n \notin names /\ names' = names \cup {n}

\* C39: an entry registered with a non-empty requires list comes, in the order
\* of iteration, before every entry registered earlier with the same requires
\* list; an entry registered without requires comes after every entry
\* registered earlier without requires; and no registration changes the
\* relative order of the entries registered before it.
C39_DependentsReverseOrder ==
    [][ \A n \in names' :
            Registers(n) =>
                LET fn == functions'[PosIn(order', n)]
                IN  /\ \A i \in 1..Len(functions) :
                          functions[i].requires = fn.requires =>
                              IF fn.requires # <<>>
                              THEN PosIn(order', n) < PosIn(order', functions[i].name)
                              ELSE PosIn(order', functions[i].name) < PosIn(order', n)
                    /\ \A a, b \in names :
                          PosIn(order, a) < PosIn(order, b) =>
                              PosIn(order', a) < PosIn(order', b)
      ]_vars

\* m2 and then m3 were registered, each with requires = [m1]: m3 stands
\* between m1 and m2
C39_Witness ==
    /\ order = <<"m1", "m3", "m2">>
    /\ functions[2] = with_requires("m3", <<"m1">>)
    /\ functions[3] = with_requires("m2", <<"m1">>)
    /\ last_register = [kind |-> "ok", name |-> "m3", requires |-> <<"m1">>, dep |-> ""]

(***************************************************************************)
(* Claims about two processes in the lock scope                            *)
(***************************************************************************)
\* C40: with two processes running the lock scope for the same schema version
\* at the same time, the lock file that a process created on leaving its block
\* normally is not removed by any step of the other process: once created it
\* stays in place.
C40_Original ==
    [][ \A p \in Procs :
            (/\ procs[p].ended = "normal"
             /\ procs[p].pc = "out"
             /\ lock_file \in lock_files) => lock_file \in lock_files'
      ]_vars

====
